---- MODULE Spec2Model ----
(***************************************************************************)
(* Model of XrdCl/XrdClOperationHandlers.hh: the ForwardingHandler family  *)
(* (object-sink wrapper, callback wrappers, open+stat wrappers, future     *)
(* wrappers) and the Resp factories.                                       *)
(*                                                                         *)
(* Every HandleResponse method is an operator that yields the sequence of  *)
(* effects the method performs, in program order.  The action Deliver      *)
(* executes that whole sequence (Exec) on the handler's state in one step, *)
(* running the destructor when it meets "delete this".                     *)
(***************************************************************************)
EXTENDS Integers, Sequences, FiniteSets, TLC

\* Number of handler objects that may be allocated.
MaxHandlers == 1
\* Response payload values are 1..MaxVal.
MaxVal == 2

\* Buckets of the forwarding container are 1..MaxBucket.
MaxBucket == 2
\* Number of FwdArg calls made on one handler.
MaxFwd == 2

Handlers == 1..MaxHandlers
Values == 1..MaxVal

-----------------------------------------------------------------------------
(* Values handed around by the engine and the handlers *)

\* XRootDStatus values.
NoStatus == [status |-> "none", code |-> "none"]
StatusOK == [status |-> "stOK", code |-> "errNone"]
StatusFailed == [status |-> "stError", code |-> "errInternal"]
\* XRootDStatus( stError, errPipelineFailed )
PipelineFailed == [status |-> "stError", code |-> "errPipelineFailed"]
DeliveredStatuses == {StatusOK, StatusFailed}

\* XRootDStatus::IsOK
IsOK(status) == status.status = "stOK"

\* AnyObject* response: a null pointer, or an object holding a value of the
\* handler's ResponseType ("T") or of some other type ("U").
NullResponse == [ptr |-> "null", type |-> "none", val |-> 0]
Responses ==
  {NullResponse} \cup {[ptr |-> "obj", type |-> "T", val |-> v] : v \in Values}
                 \cup {[ptr |-> "obj", type |-> "U", val |-> 1]}

\* What a ResponseType* / StatInfo* local of a handler points to.
\*   "payload": the object held by the AnyObject     "info": the object
\*   allocated by File::Stat     "nullref": the static placeholder
\*   "null": nullptr     "none": the callable takes no response
NoRes == [ref |-> "none", val |-> 0]
NullPtr == [ref |-> "null", val |-> 0]

\* static ResponseType nullref: a default-constructed ResponseType.
nullref == [ref |-> "nullref", val |-> 0]

\* AnyObject::Get( res ): res is the held object when the AnyObject holds a
\* value of the asked type, and nullptr otherwise.
AnyObjectGet(response, type) ==
  IF response.ptr = "obj" /\ response.type = type
    THEN [ref |-> "payload", val |-> response.val]
    ELSE NullPtr

\* File::Stat( false, info ): allocates the StatInfo on success and leaves
\* info a nullptr on failure.
StatResults == {NullPtr} \cup {[ref |-> "info", val |-> v] : v \in Values}

-----------------------------------------------------------------------------
(* Effects: what one statement of a handler does *)

Effect(op) ==
  [op |-> op, status |-> NoStatus, response |-> NullResponse, res |-> NoRes,
   hosts |-> "none", ctx |-> FALSE]

\* fun( *status ), fun( *status, *res ), fun( *status, *res, ctx )
Call(status, res, ctx) ==
  [Effect("call") EXCEPT !.status = status, !.res = res, !.ctx = ctx]
\* handler->HandleResponse( status, response )
Forward(status, response) ==
  [Effect("handler->HandleResponse") EXCEPT !.status = status,
                                            !.response = response]
\* handler->HandleResponseWithHosts( status, response, hostList )
ForwardWithHosts(status, response, hostList) ==
  [Effect("handler->HandleResponseWithHosts") EXCEPT !.status = status,
      !.response = response, !.hosts = hostList]
DeleteStatus(status) == [Effect("delete status") EXCEPT !.status = status]
DeleteResponse(response) ==
  [Effect("delete response") EXCEPT !.response = response]
DeleteHostList(hostList) == [Effect("delete hostList") EXCEPT !.hosts = hostList]
DeleteInfo(info) == [Effect("delete info") EXCEPT !.res = info]
DeleteThis == Effect("delete this")
SetCalled == Effect("called = true")
SetValue(res) == [Effect("prms.set_value") EXCEPT !.res = res]
Stat(info) == [Effect("f.Stat") EXCEPT !.res = info]
Crash == Effect("crash")

\* PipelineException( err ): holds a copy of the status.
PipelineException(err) == [Effect("prms.set_exception") EXCEPT !.status = err]

\* Mutant: the status passed in is ignored.
SetException_IgnoresErr(err) == <<PipelineException(PipelineFailed)>>

\* FutureWrapperBase::SetException
SetException(err) == <<PipelineException(err)>>

-----------------------------------------------------------------------------
(* The HandleResponse methods.  Each yields the set of effect sequences    *)
(* the method may perform, in program order.  The set has several members  *)
(* where the outcome is not decided by the method: File::Stat succeeds or  *)
(* fails, and a dereferenced nullptr (undefined behaviour) either crashes  *)
(* the process or lets it go on, with an arbitrary value where one is read *)
(* through the nullptr.                                                    *)

\* Mutant: the status is never freed.
ForwardingHandlerHandleResponse_LeakStatus(status, response) ==
  {<<DeleteResponse(response), DeleteThis>>}

\* ForwardingHandler::HandleResponse
ForwardingHandlerHandleResponse(status, response) ==
  {<<DeleteStatus(status), DeleteResponse(response), DeleteThis>>}

\* Mutant: the wrapper frees the outcome after forwarding it.
WrappingHandlerHandleResponse_Frees(status, response) ==
  {<<Forward(status, response),
     DeleteStatus(status), DeleteResponse(response), DeleteThis>>}

\* WrappingHandler::HandleResponse
WrappingHandlerHandleResponse(status, response) ==
  {<<Forward(status, response), DeleteThis>>}

\* Mutant: the host list is dropped and the plain entry point is called.
WrappingHandlerHandleResponseWithHosts_Plain(status, response, hostList) ==
  {<<Forward(status, response), DeleteThis>>}

\* WrappingHandler::HandleResponseWithHosts
WrappingHandlerHandleResponseWithHosts(status, response, hostList) ==
  {<<ForwardWithHosts(status, response, hostList), DeleteThis>>}

\* SimpleFunctionWrapper::HandleResponse
SimpleFunctionWrapperHandleResponse(status, response) ==
  {<<Call(status, NoRes, FALSE),
     DeleteStatus(status), DeleteResponse(response), DeleteThis>>}

\* Mutant: the response is never extracted, the callable always gets the
\* placeholder.
FunctionWrapperHandleResponse_NoGet(status, response) ==
  {<<Call(status, nullref, FALSE),
     DeleteStatus(status), DeleteResponse(response), DeleteThis>>}

\* FunctionWrapper<ResponseType>::HandleResponse.  response->Get( res ) on a
\* null response is undefined behaviour, and so is *res with res a nullptr:
\* the callable is entered with a null reference and crashes when it reads it.
FunctionWrapperHandleResponse(status, response) ==
  LET res == IF IsOK(status) THEN AnyObjectGet(response, "T") ELSE nullref
  IN  (IF IsOK(status) /\ response.ptr = "null" THEN {<<Crash>>} ELSE {})
      \cup (IF res = NullPtr
              THEN {<<Call(status, res, FALSE), Crash>>} ELSE {})
      \cup {<<Call(status, res, FALSE),
              DeleteStatus(status), DeleteResponse(response), DeleteThis>>}

\* Mutant: the callable is invoked on success only.
SimpleForwardingFunctionWrapperHandleResponse_OnlyOK(status, response) ==
  {(IF IsOK(status) THEN <<Call(status, NoRes, TRUE)>> ELSE <<>>)
   \o <<DeleteStatus(status), DeleteResponse(response), DeleteThis>>}

\* SimpleForwardingFunctionWrapper::HandleResponse
SimpleForwardingFunctionWrapperHandleResponse(status, response) ==
  {<<Call(status, NoRes, TRUE),
     DeleteStatus(status), DeleteResponse(response), DeleteThis>>}

\* Mutant: the adapter deletes itself before it frees the outcome.
ForwardingFunctionWrapperHandleResponse_DeleteFirst(status, response) ==
  LET res == IF IsOK(status) THEN AnyObjectGet(response, "T") ELSE nullref
  IN  {<<Call(status, res, TRUE), DeleteThis,
         DeleteStatus(status), DeleteResponse(response)>>}

\* ForwardingFunctionWrapper<ResponseType>::HandleResponse
ForwardingFunctionWrapperHandleResponse(status, response) ==
  LET res == IF IsOK(status) THEN AnyObjectGet(response, "T") ELSE nullref
  IN  (IF IsOK(status) /\ response.ptr = "null" THEN {<<Crash>>} ELSE {})
      \cup (IF res = NullPtr
              THEN {<<Call(status, res, TRUE), Crash>>} ELSE {})
      \cup {<<Call(status, res, TRUE),
              DeleteStatus(status), DeleteResponse(response), DeleteThis>>}

\* Mutant: the StatInfo is not deleted.
ExOpenFuncWrapperHandleResponse_LeaksInfo(status, response) ==
  UNION {
    {(IF IsOK(status) THEN <<Stat(info)>> ELSE <<>>)
     \o <<Call(status, info, FALSE),
          DeleteStatus(status), DeleteResponse(response), DeleteThis>>}
    : info \in IF IsOK(status) THEN StatResults ELSE {nullref}}

\* ExOpenFuncWrapper::HandleResponse.  info stays a nullptr when File::Stat
\* fails; *info is then undefined behaviour.
ExOpenFuncWrapperHandleResponse(status, response) ==
  UNION {
    (IF info = NullPtr
       THEN {<<Stat(info), Call(status, info, FALSE), Crash>>} ELSE {})
    \cup {(IF IsOK(status) THEN <<Stat(info)>> ELSE <<>>)
          \o <<Call(status, info, FALSE)>>
          \o (IF info # nullref THEN <<DeleteInfo(info)>> ELSE <<>>)
          \o <<DeleteStatus(status), DeleteResponse(response), DeleteThis>>}
    : info \in IF IsOK(status) THEN StatResults ELSE {nullref}}

\* Mutant: the StatInfo the callable was handed is deleted whatever it is.
ForwardingExOpenFuncWrapperHandleResponse_FreesAny(status, response) ==
  UNION {
    {(IF IsOK(status) THEN <<Stat(info)>> ELSE <<>>)
     \o <<Call(status, info, TRUE), DeleteInfo(info),
          DeleteStatus(status), DeleteResponse(response), DeleteThis>>}
    : info \in IF IsOK(status) THEN StatResults ELSE {nullref}}

\* ForwardingExOpenFuncWrapper::HandleResponse
ForwardingExOpenFuncWrapperHandleResponse(status, response) ==
  UNION {
    (IF info = NullPtr
       THEN {<<Stat(info), Call(status, info, TRUE), Crash>>} ELSE {})
    \cup {(IF IsOK(status) THEN <<Stat(info)>> ELSE <<>>)
          \o <<Call(status, info, TRUE)>>
          \o (IF info # nullref THEN <<DeleteInfo(info)>> ELSE <<>>)
          \o <<DeleteStatus(status), DeleteResponse(response), DeleteThis>>}
    : info \in IF IsOK(status) THEN StatResults ELSE {nullref}}

\* Mutant: a failure is not passed on to the promise.
FutureWrapperHandleResponse_FailureDropped(status, response) ==
  LET resp == AnyObjectGet(response, "T")
      rest == <<DeleteStatus(status), DeleteResponse(response), DeleteThis>>
  IN  IF IsOK(status)
        THEN {<<SetCalled, SetValue(resp)>> \o rest}
        ELSE {<<SetCalled>> \o rest}

\* FutureWrapper<Response>::HandleResponse.  std::move( *resp ) with resp a
\* nullptr is undefined behaviour: a crash, or an arbitrary value is moved
\* into the promise.
FutureWrapperHandleResponse(status, response) ==
  LET resp == AnyObjectGet(response, "T")
      rest == <<DeleteStatus(status), DeleteResponse(response), DeleteThis>>
  IN  IF IsOK(status)
        THEN IF resp = NullPtr
               THEN {<<SetCalled, Crash>>}
                    \cup {<<SetCalled, SetValue([ref |-> "null", val |-> v])>>
                          \o rest : v \in 0..MaxVal}
               ELSE {<<SetCalled, SetValue(resp)>> \o rest}
        ELSE {<<SetCalled>> \o SetException(status) \o rest}

\* Mutant: called is not set.
FutureWrapperVoidHandleResponse_NoCalled(status, response) ==
  {(IF IsOK(status) THEN <<SetValue(NoRes)>> ELSE SetException(status))
   \o <<DeleteStatus(status), DeleteResponse(response), DeleteThis>>}

\* Mutant: the promise is completed whatever the status.
FutureWrapperVoidHandleResponse_AlwaysValue(status, response) ==
  {<<SetCalled, SetValue(NoRes),
     DeleteStatus(status), DeleteResponse(response), DeleteThis>>}

\* Mutant: the bridge deletes itself before it resolves the promise.
FutureWrapperVoidHandleResponse_DeleteFirst(status, response) ==
  {<<DeleteThis, SetCalled>>
   \o (IF IsOK(status) THEN <<SetValue(NoRes)>> ELSE SetException(status))
   \o <<DeleteStatus(status), DeleteResponse(response)>>}

\* FutureWrapper<void>::HandleResponse
FutureWrapperVoidHandleResponse(status, response) ==
  {<<SetCalled>>
   \o (IF IsOK(status) THEN <<SetValue(NoRes)>> ELSE SetException(status))
   \o <<DeleteStatus(status), DeleteResponse(response), DeleteThis>>}

\* Mutant: the destructor sets nothing.
FutureWrapperBaseDestructor_Empty(called_) == <<>>

\* Mutant: the destructor sets a default-constructed XRootDStatus.
FutureWrapperBaseDestructor_DefaultStatus(called_) ==
  IF ~called_ THEN SetException(StatusOK) ELSE <<>>

\* FutureWrapperBase::~FutureWrapperBase
FutureWrapperBaseDestructor(called_) ==
  IF ~called_ THEN SetException(PipelineFailed) ELSE <<>>

FutureKinds == {"FutureWrapper", "FutureWrapperVoid"}
\* Handlers whose callable takes a response.
ResponseKinds == {"FunctionWrapper", "ForwardingFunctionWrapper"}
VoidKinds == {"SimpleFunctionWrapper", "SimpleForwardingFunctionWrapper"}
ExOpenKinds == {"ExOpenFuncWrapper", "ForwardingExOpenFuncWrapper"}
\* Classes the caller constructs itself rather than through Resp::Create.
DirectKinds == {"ForwardingHandler"} \cup ExOpenKinds
Kinds ==
  {"WrappingHandler"} \cup FutureKinds \cup ResponseKinds \cup VoidKinds
                      \cup DirectKinds

\* Mutant: the destructor of a wrapper of a callable invokes the callable
\* with a failure.
Destructor_CallsBack(k, called_) ==
  IF k \in FutureKinds
    THEN FutureWrapperBaseDestructor(called_)
    ELSE IF k \in ResponseKinds \cup VoidKinds
           THEN <<Call(PipelineFailed, NoRes, FALSE)>>
           ELSE <<>>

\* The destructor that "delete this" runs for a handler of class k.
Destructor(k, called_) ==
  IF k \in FutureKinds THEN FutureWrapperBaseDestructor(called_) ELSE <<>>

\* Virtual dispatch of HandleResponse on the handler's class.
HandleResponse(k, status, response) ==
  CASE k = "ForwardingHandler" ->
         ForwardingHandlerHandleResponse(status, response)
    [] k = "WrappingHandler" ->
         WrappingHandlerHandleResponse(status, response)
    [] k = "SimpleFunctionWrapper" ->
         SimpleFunctionWrapperHandleResponse(status, response)
    [] k = "FunctionWrapper" ->
         FunctionWrapperHandleResponse(status, response)
    [] k = "SimpleForwardingFunctionWrapper" ->
         SimpleForwardingFunctionWrapperHandleResponse(status, response)
    [] k = "ForwardingFunctionWrapper" ->
         ForwardingFunctionWrapperHandleResponse(status, response)
    [] k = "ExOpenFuncWrapper" ->
         ExOpenFuncWrapperHandleResponse(status, response)
    [] k = "ForwardingExOpenFuncWrapper" ->
         ForwardingExOpenFuncWrapperHandleResponse(status, response)
    [] k = "FutureWrapper" ->
         FutureWrapperHandleResponse(status, response)
    [] k = "FutureWrapperVoid" ->
         FutureWrapperVoidHandleResponse(status, response)

\* Mutant: the host list is not freed.
ForwardingHandlerHandleResponseWithHosts_Keeps(k, status, response, hostList) ==
  HandleResponse(k, status, response)

\* ForwardingHandler::HandleResponseWithHosts: frees the host list and calls
\* the virtual HandleResponse.
ForwardingHandlerHandleResponseWithHosts(k, status, response, hostList) ==
  {<<DeleteHostList(hostList)>> \o effects :
     effects \in HandleResponse(k, status, response)}

\* Virtual dispatch of HandleResponseWithHosts: only WrappingHandler
\* overrides it.
HandleResponseWithHosts(k, status, response, hostList) ==
  IF k = "WrappingHandler"
    THEN WrappingHandlerHandleResponseWithHosts(status, response, hostList)
    ELSE ForwardingHandlerHandleResponseWithHosts(k, status, response,
                                                  hostList)

-----------------------------------------------------------------------------
(* The factories *)

Factories == {"Resp<Response>", "Resp<void>"}
PassThroughIdioms == {"ForwardingHandler*", "ForwardingHandler&"}
Idioms ==
  {"ResponseHandler*", "ResponseHandler&", "std::future",
   "function(status)", "function(status,context)",
   "function(status,response)", "function(status,response,context)"}
  \cup PassThroughIdioms

\* Mutant: the overloads for a ForwardingHandler are not declared.
Overloads_NoPassThrough(factory) ==
  {"ResponseHandler*", "ResponseHandler&", "std::future"}
  \cup (IF factory = "Resp<Response>"
          THEN {"function(status,response)",
                "function(status,response,context)"}
          ELSE {"function(status)", "function(status,context)"})

\* The parameter types of the Create overloads of a factory: those of
\* RespBase, which the using-declaration makes visible, and its own.
Overloads(factory) ==
  {"ResponseHandler*", "ResponseHandler&", "std::future"}
  \cup PassThroughIdioms
  \cup (IF factory = "Resp<Response>"
          THEN {"function(status,response)",
                "function(status,response,context)"}
          ELSE {"function(status)", "function(status,context)"})

\* How an overload with parameter type param takes a value of shape arg:
\* 1 as it is, 2 by the conversion of a ForwardingHandler to its base
\* class ResponseHandler, 0 not at all.
Rank(param, arg) ==
  CASE param = arg -> 1
    [] param = "ResponseHandler*" /\ arg = "ForwardingHandler*" -> 2
    [] param = "ResponseHandler&" /\ arg = "ForwardingHandler&" -> 2
    [] OTHER -> 0

\* Overload resolution: the overloads that take the value and that no other
\* overload takes better.  The call compiles only if there is exactly one.
Selected(factory, arg) ==
  LET viable == {q \in Overloads(factory) : Rank(q, arg) > 0}
  IN  {q \in viable : \A r \in viable : Rank(q, arg) <= Rank(r, arg)}

\* RespBase<Response>::Create: the overloads that build a handler.
RespBaseCreate(factory, idiom) ==
  CASE idiom \in {"ResponseHandler*", "ResponseHandler&"} -> "WrappingHandler"
    [] idiom = "std::future" /\ factory = "Resp<Response>" -> "FutureWrapper"
    [] idiom = "std::future" /\ factory = "Resp<void>" -> "FutureWrapperVoid"
    [] OTHER -> "none"

\* Mutant: the overloads for a callable with a context build the wrappers
\* for a callable without one.
RespCreate_NoContext(factory, idiom) ==
  CASE factory = "Resp<Response>"
         /\ idiom \in {"function(status,response)",
                       "function(status,response,context)"} ->
         "FunctionWrapper"
    [] factory = "Resp<void>"
         /\ idiom \in {"function(status)", "function(status,context)"} ->
         "SimpleFunctionWrapper"
    [] OTHER -> RespBaseCreate(factory, idiom)

\* Resp<Response>::Create and Resp<void>::Create: the class of the handler
\* the overload with the given parameter type builds, "none" when the
\* factory has no such overload.
RespCreate(factory, idiom) ==
  CASE factory = "Resp<Response>" /\ idiom = "function(status,response)" ->
         "FunctionWrapper"
    [] factory = "Resp<Response>"
         /\ idiom = "function(status,response,context)" ->
         "ForwardingFunctionWrapper"
    [] factory = "Resp<void>" /\ idiom = "function(status)" ->
         "SimpleFunctionWrapper"
    [] factory = "Resp<void>" /\ idiom = "function(status,context)" ->
         "SimpleForwardingFunctionWrapper"
    [] OTHER -> RespBaseCreate(factory, idiom)

-----------------------------------------------------------------------------
(* The forwarding container and the operation context *)

\* template<typename T> void FwdArg( typename T::type value, int bucket = 1 )
DefaultBucket == 1
\* The argument types T a value is stored under.
ArgTypes == {"T", "U"}
Buckets == 1..MaxBucket
Keys == [type : ArgTypes, bucket : Buckets]

\* The content of an ArgsContainer: the value stored under each key, 0 where
\* none is stored.
EmptyContainer == [k \in Keys |-> 0]

\* ArgsContainer::SetArg<T>( value, bucket ): stores the value under
\* (T, bucket); a value stored there before is replaced.
SetArg(content, type, value, bucket) ==
  [content EXCEPT ![[type |-> type, bucket |-> bucket]] = value]

\* ArgsContainer::GetArg<T>( bucket ): the stored value, or the missing-key
\* error when none is stored under (T, bucket).
MissingKey == [ok |-> FALSE, val |-> 0]
\* Mutant: a default value is returned for a key that holds nothing.
GetArg_Default(content, key) == [ok |-> TRUE, val |-> content[key]]

GetArg(content, key) ==
  IF content[key] = 0 THEN MissingKey ELSE [ok |-> TRUE, val |-> content[key]]

\* Mutant: the bucket is dropped, the value goes to the default bucket.
FwdArg_DefaultBucket(content, type, value, bucket) ==
  SetArg(content, type, value, DefaultBucket)

\* Mutant: nothing is stored.
FwdArg_NotStored(content, type, value, bucket) == content

\* ForwardingHandler::FwdArg<T>( value, bucket ) on the content of the
\* handler's container.
FwdArg(content, type, value, bucket) == SetArg(content, type, value, bucket)

\* ForwardingHandler::GetArgContainer: a reference to the handler's container
\* member, for the friend PipelineHandler.
GetArgContainer(container_) == container_

\* Mutant: the context is built over no container.
GetOperationContext_Null(container_) == 0

\* ForwardingHandler::GetOperationContext: a new OperationContext that views
\* the handler's container member.  A context is named by the container it
\* views, 0 is no context.
GetOperationContext(container_) == container_
\* The context is built from a copy of the member: it holds a share of
\* the container for as long as it lives.
GetOperationContextUseCount_Borrowed(use_count) == use_count
GetOperationContextUseCount(use_count) == use_count + 1

\* OperationContext::get<T>( bucket ): delegates to the container it views.
OperationContextGet(store_, ctx, key) == GetArg(store_[ctx], key)

-----------------------------------------------------------------------------
(* State *)

VARIABLES
  kind,      \* kind[h]: the class of handler h (its dynamic type), "none"
             \* before it is built
  idiom,     \* idiom[h]: the Create overload h went through, "none" if the
             \* caller constructed it and handed it to no factory
  life,      \* life[h]: "unused", "live", "deleted" (delete this, or the
             \* owner's delete), or "crashed" when the process died inside
             \* one of h's methods
  called,    \* called[h]: FutureWrapperBase::called
  prms,      \* prms[h]: FutureWrapperBase::prms, the state it shares with
             \* the future linked by the constructor
  log,       \* log[h]: the effects h's methods have performed, in order
  delivery,  \* delivery[h]: the entry point the engine called on h and its
             \* arguments, NoDelivery before
  waiter,    \* waiter[h]: the thread that waits on the future linked to h
  container, \* container[h]: ForwardingHandler::container, the ArgsContainer
             \* the member points to; the container allocated by the
             \* constructor of handler h is named h, 0 is none
  store,     \* store[c]: the content of ArgsContainer c
  context,   \* context[h]: the OperationContext h handed to its callable,
             \* named by the container it views, 0 if none
  lookup,    \* lookup[h]: the last lookup made for h, through the context
             \* by its callable or on its container by the engine
  fwds,      \* fwds[h]: the FwdArg calls made on h, in order
  freed,     \* freed[c]: NotFreed while ArgsContainer c is allocated or
             \* not yet created, else who released the last share of it
             \* and when
  engine,    \* the containers the engine holds a share of
  nullrefs,  \* nullrefs[k]: the value of the static k::nullref
  frame,     \* frame[h]: the activation of HandleResponse on h that is
             \* under way on the delivering thread, NoFrame if none
  sh,        \* the shell that runs handleDaemons of xrootd.functions: its
             \* position, its variables and the handlers it has run
  py         \* the process that runs main of the macaroon tool: its
             \* position, its arguments, the answers it got and the
             \* functions it has called

vars == <<kind, idiom, life, called, prms, log, delivery, waiter,
          container, store, context, lookup, fwds,
          freed, engine, nullrefs, frame, sh, py>>
\* What the operations on the handlers work on.
handlerVars == <<kind, idiom, life, called, prms, log, delivery, waiter,
                 container, store, context, lookup, fwds,
                 freed, engine, nullrefs, frame>>
\* What only a delivery and the handling of the shares change.
heapVars == <<freed, engine, nullrefs, frame>>
\* What only the forwarding of arguments changes.
fwdVars == <<container, store, lookup, fwds>>

\* The shared state of a promise/future pair.
NoPromise == [state |-> "none", res |-> NoRes, err |-> NoStatus]
PendingPromise == [NoPromise EXCEPT !.state = "pending"]
Ready(p) == p.state \in {"value", "exception"}

NoDelivery ==
  [entry |-> "none", status |-> NoStatus, response |-> NullResponse]
Entries == {"HandleResponse", "HandleResponseWithHosts"}

IdleWaiter == [st |-> "idle", wasBlocked |-> FALSE, got |-> NoPromise]

\* A lookup: who made it ("context" or "container"), how many FwdArg calls
\* had been made on the handler by then, the key and the result.
NoKey == [type |-> "none", bucket |-> 0]
NoLookup == [via |-> "none", at |-> 0, key |-> NoKey, result |-> MissingKey]

\* The process is alive: no method has crashed it.
\* The classes that define a static nullref.
NullrefKinds == ResponseKinds \cup ExOpenKinds
\* What a callable does to the response it is handed by mutable reference:
\* it leaves it alone or assigns a value to it.
NoWrite == [write |-> FALSE, val |-> 0]
Writes == {[write |-> TRUE, val |-> v] : v \in Values}
NoFrame == [pending |-> <<>>, ctx |-> FALSE, write |-> NoWrite]
\* freed[c] once the last share of c is released: by handler `by` when it
\* had performed `at` - 1 effects, or by the engine (0).
NotFreed == [freed |-> FALSE, by |-> 0, at |-> 0]
FreedBy(h, n) == [freed |-> TRUE, by |-> h, at |-> n]

Running == \A h \in DOMAIN life : life[h] # "crashed"

\* What a call returns or raises.
Returned_(value) == [raised |-> "none", value |-> value]
Raised(exception) == [raised |-> exception, value |-> 0]
\* No answer of the auto-discovery URL yet.
NoAnswer == [status_code |-> 0, text |-> [json |-> "none", token_endpoint |-> 0]]

\* main has not been entered.  called lists the functions of the tool that
\* were called, posted the URL the token request went to, outcome what
\* get_token_endpoint returned or raised.
NoPy ==
  [pc |-> "start", validity |-> 0, activity |-> FALSE, response |-> NoAnswer,
   outcome |-> Returned_(0), called |-> <<>>, posted |-> "none",
   token |-> 0, raised |-> "none", exit |-> 0]

\* A shell variable that is not set, and one that holds exit status v.
Unset == [set |-> FALSE, val |-> 0]
Val(v) == [set |-> TRUE, val |-> v]

\* handleDaemons has not been called.  OPTS lists, per instance in
\* $INSTANCES, whether its ..._OPTIONS variable is non-empty; done counts
\* the iterations of the loop; ran lists the command handlers that were
\* run; at and steps are the position in condrestartDaemon and the
\* commands it has run; ret is what handleDaemons returned.
NoShell ==
  [pc |-> "idle", COMMAND |-> "none", DAEMON |-> "none",
   CMD_HANDLER |-> "none", OPTS |-> <<>>, done |-> 0, STATUS |-> 0,
   RETVAL |-> Unset, at |-> "none", steps |-> <<>>, ran |-> <<>>,
   ret |-> Unset]

\* std::shared_ptr::use_count of ArgsContainer c: the handlers whose member
\* points to it, the contexts in scope that view it, and the engine.
UseCount(c) ==
  Cardinality({h \in DOMAIN life : life[h] = "live" /\ container[h] = c})
    + Cardinality({h \in DOMAIN life : frame[h].ctx /\ context[h] = c})
    + (IF c \in engine THEN 1 ELSE 0)

\* What the callable sees of the response it is handed: the placeholder
\* has the value the static holds at that time.
Seen(s, e) ==
  IF e.res.ref = "nullref" THEN [e EXCEPT !.res.val = s.nullref] ELSE e
\* The callable has returned: the static holds what the callable assigned
\* to the placeholder, if it did.
Written(s, e) ==
  IF e.res.ref = "nullref" /\ s.write.write THEN s.write.val ELSE s.nullref

\* One effect applied to the state s of a handler of class k.  A callable
\* that takes a context is handed *GetOperationContext().  A second
\* set_value / set_exception on a promise throws std::future_error, which
\* nothing catches.  "delete this" runs the destructor first.
RECURSIVE Exec(_, _, _)
Step(k, s, e) ==
  CASE e.op = "crash" -> [s EXCEPT !.life = "crashed"]
    [] e.op = "call" /\ e.ctx ->
         [s EXCEPT !.context = GetOperationContext(s.container),
                   !.shares = GetOperationContextUseCount(s.shares),
                   !.ctxHolds = GetOperationContextUseCount(s.shares)
                                  > s.shares,
                   !.nullref = Written(s, e),
                   !.log = Append(@, Seen(s, e))]
    [] e.op = "call" ->
         [s EXCEPT !.nullref = Written(s, e), !.log = Append(@, Seen(s, e))]
    [] e.op = "called = true" ->
         [s EXCEPT !.called = TRUE, !.log = Append(@, e)]
    [] e.op = "prms.set_value" ->
         IF s.prms.state = "pending"
           THEN [s EXCEPT !.prms = [state |-> "value", res |-> e.res,
                                    err |-> NoStatus],
                          !.log = Append(@, e)]
           ELSE [s EXCEPT !.life = "crashed", !.log = Append(@, e)]
    [] e.op = "prms.set_exception" ->
         IF s.prms.state = "pending"
           THEN [s EXCEPT !.prms = [state |-> "exception", res |-> NoRes,
                                    err |-> e.status],
                          !.log = Append(@, e)]
           ELSE [s EXCEPT !.life = "crashed", !.log = Append(@, e)]
    [] e.op = "delete this" ->
         LET d == Exec(k, s, Destructor(k, s.called))
         IN  IF d.life = "crashed"
               THEN d
               ELSE [d EXCEPT !.life = "deleted", !.log = Append(@, e),
                              !.shares = @ - 1,
                              !.freedAt = IF d.shares = 1
                                            THEN Len(d.log) + 1 ELSE @]
    [] OTHER -> [s EXCEPT !.log = Append(@, e)]

\* The effects of a method executed in order; a crash ends the execution.
Exec(k, s, effects) ==
  IF effects = <<>> \/ s.life = "crashed"
    THEN s
    ELSE Exec(k, Step(k, s, Head(effects)), Tail(effects))

\* HandleResponse returns: its locals go out of scope, and the context
\* releases its share of the container, which may be the last.
Return_Leaked(s) == s
Return(s) ==
  IF s.life # "crashed" /\ s.ctxHolds
    THEN [s EXCEPT !.ctxHolds = FALSE, !.shares = @ - 1,
                   !.freedAt = IF s.shares = 1 THEN Len(s.log) + 1 ELSE @]
    ELSE s

\* What a method of a handler works on: the members, the shares of its
\* container, the static placeholder of its class, and what its callable
\* does to the response it is handed.
LocalOf(life_, called_, prms_, log_, cont_, ctx_, shares_, holds_, nullref_, w_) ==
  [life |-> life_, called |-> called_, prms |-> prms_, log |-> log_,
   container |-> cont_, context |-> ctx_, shares |-> shares_,
   ctxHolds |-> holds_, freedAt |-> 0, nullref |-> nullref_, write |-> w_]

Local(h) ==
  LocalOf(life[h], called[h], prms[h], log[h], container[h],
          context[h], UseCount(container[h]), frame[h].ctx,
          IF kind[h] \in NullrefKinds THEN nullrefs[kind[h]] ELSE 0,
          frame[h].write)

Commit(h, s) ==
  /\ life' = [life EXCEPT ![h] = s.life]
  /\ called' = [called EXCEPT ![h] = s.called]
  /\ prms' = [prms EXCEPT ![h] = s.prms]
  /\ log' = [log EXCEPT ![h] = s.log]
  /\ context' = [context EXCEPT ![h] = s.context]
  /\ freed' = IF s.freedAt # 0
                THEN [freed EXCEPT ![s.container] = FreedBy(h, s.freedAt)]
                ELSE freed
  /\ nullrefs' = IF kind[h] \in NullrefKinds
                   THEN [nullrefs EXCEPT ![kind[h]] = s.nullref]
                   ELSE nullrefs

\* No handler has been constructed; H is the set of handler objects.
InitOn(H) ==
  /\ kind = [h \in H |-> "none"]
  /\ idiom = [h \in H |-> "none"]
  /\ life = [h \in H |-> "unused"]
  /\ called = [h \in H |-> FALSE]
  /\ prms = [h \in H |-> NoPromise]
  /\ log = [h \in H |-> <<>>]
  /\ delivery = [h \in H |-> NoDelivery]
  /\ waiter = [h \in H |-> IdleWaiter]
  /\ container = [h \in H |-> 0]
  /\ store = [h \in H |-> EmptyContainer]
  /\ context = [h \in H |-> 0]
  /\ lookup = [h \in H |-> NoLookup]
  /\ fwds = [h \in H |-> <<>>]
  /\ freed = [h \in H |-> NotFreed]
  /\ engine = {}
  /\ nullrefs = [k \in NullrefKinds |-> nullref.val]
  /\ frame = [h \in H |-> NoFrame]
  /\ sh = NoShell
  /\ py = NoPy

Init == InitOn(Handlers)

-----------------------------------------------------------------------------
(* Actions *)

\* The caller constructs a ForwardingHandler, an ExOpenFuncWrapper or a
\* ForwardingExOpenFuncWrapper itself.  The ForwardingHandler constructor
\* allocates a new ArgsContainer.
Construct(h) ==
  /\ Running
  /\ life[h] = "unused"
  /\ \E k \in DirectKinds : kind' = [kind EXCEPT ![h] = k]
  /\ life' = [life EXCEPT ![h] = "live"]
  /\ container' = [container EXCEPT ![h] = h]
  /\ UNCHANGED <<idiom, called, prms, log, delivery, waiter,
                 store, context, lookup, fwds>>
  /\ UNCHANGED heapVars
  /\ UNCHANGED <<sh, py>>

\* Resp<Response>::Create / Resp<void>::Create on a value of shape arg for
\* which an overload that builds a handler is selected: a new handler is
\* built.  The FutureWrapperBase constructor links the future to the
\* handler's promise.
Create(h) ==
  /\ Running
  /\ life[h] = "unused"
  /\ \E factory \in Factories, arg \in Idioms :
       \E i \in Selected(factory, arg) \ PassThroughIdioms :
         /\ Selected(factory, arg) = {i}
         /\ RespCreate(factory, i) # "none"
         /\ kind' = [kind EXCEPT ![h] = RespCreate(factory, i)]
         /\ idiom' = [idiom EXCEPT ![h] = arg]
         /\ prms' = [prms EXCEPT ![h] =
                       IF RespCreate(factory, i) \in FutureKinds
                         THEN PendingPromise ELSE NoPromise]
  /\ life' = [life EXCEPT ![h] = "live"]
  /\ called' = [called EXCEPT ![h] = FALSE]
  /\ container' = [container EXCEPT ![h] = h]
  /\ UNCHANGED <<log, delivery, waiter, store, context, lookup, fwds>>
  /\ UNCHANGED heapVars
  /\ UNCHANGED <<sh, py>>

\* Resp::Create on a handler the caller constructed, for which
\* Create( ForwardingHandler* ) / Create( ForwardingHandler& ) is selected:
\* the handler is returned as it is.
CreatePassThrough(h) ==
  /\ Running
  /\ life[h] = "live"
  /\ idiom[h] = "none"
  /\ delivery[h] = NoDelivery
  /\ \E factory \in Factories, arg \in PassThroughIdioms :
       /\ Selected(factory, arg) = {arg}
       /\ idiom' = [idiom EXCEPT ![h] = arg]
  /\ UNCHANGED <<kind, life, called, prms, log, delivery, waiter, context>>
  /\ UNCHANGED fwdVars
  /\ UNCHANGED heapVars
  /\ UNCHANGED <<sh, py>>

\* The engine delivers an outcome, drawn from the given entry points,
\* statuses and responses, to handler h, once.  A callable that is handed a
\* context looks up one of the given keys through it, or none for NoKey.
DeliverWith(h, entries, statuses, responses, keys, writes) ==
  /\ Running
  /\ life[h] = "live"
  /\ delivery[h] = NoDelivery
  /\ \E entry \in entries, status \in statuses, response \in responses :
       \E effects \in
            IF entry = "HandleResponseWithHosts"
              THEN HandleResponseWithHosts(kind[h], status, response,
                                           "hostList")
              ELSE HandleResponse(kind[h], status, response) :
         \E write \in writes :
         LET s == Return(Exec(kind[h], [Local(h) EXCEPT !.write = write],
                              effects))
         IN  /\ Commit(h, s)
             /\ delivery' = [delivery EXCEPT ![h] =
                  [entry |-> entry, status |-> status, response |-> response]]
             /\ \E key \in keys :
                  lookup' = [lookup EXCEPT ![h] =
                    IF s.context # 0 /\ key # NoKey
                      THEN [via |-> "context", at |-> Len(fwds[h]),
                            key |-> key,
                            result |-> OperationContextGet(store, s.context,
                                                           key)]
                      ELSE @]
  /\ UNCHANGED <<kind, idiom, waiter, container, store, fwds, engine, frame>>
  /\ UNCHANGED <<sh, py>>

\* The engine delivers the outcome of the operation to handler h, through
\* either entry point, once.
Deliver(h) ==
  DeliverWith(h, Entries, DeliveredStatuses, Responses, {NoKey}, {NoWrite})

\* The operation is abandoned: the handler is destroyed without a delivery.
Abandon(h) ==
  /\ Running
  /\ life[h] = "live"
  /\ delivery[h] = NoDelivery
  /\ Commit(h, Exec(kind[h], Local(h), <<DeleteThis>>))
  /\ UNCHANGED <<kind, idiom, delivery, waiter, engine, frame>>
  /\ UNCHANGED fwdVars
  /\ UNCHANGED <<sh, py>>

\* A thread of the engine enters HandleResponse / HandleResponseWithHosts
\* on handler h with an outcome drawn from the given sets: nothing of the
\* body has been executed yet.  Other threads run between the statements.
BeginWith(h, entries, statuses, responses, writes) ==
  /\ Running
  /\ life[h] = "live"
  /\ delivery[h] = NoDelivery
  /\ \E entry \in entries, status \in statuses, response \in responses :
       \E effects \in
            IF entry = "HandleResponseWithHosts"
              THEN HandleResponseWithHosts(kind[h], status, response,
                                           "hostList")
              ELSE HandleResponse(kind[h], status, response) :
         \E write \in writes :
           /\ effects # <<>>
           /\ frame' = [frame EXCEPT ![h] =
                          [pending |-> effects, ctx |-> FALSE,
                           write |-> write]]
           /\ delivery' = [delivery EXCEPT ![h] =
                [entry |-> entry, status |-> status, response |-> response]]
  /\ UNCHANGED <<kind, idiom, life, called, prms, log, waiter, context,
                 freed, engine, nullrefs>>
  /\ UNCHANGED fwdVars
  /\ UNCHANGED <<sh, py>>

\* The thread that entered the method on h executes its next statement;
\* after the last one the method returns.
StepDelivery(h) ==
  /\ Running
  /\ frame[h].pending # <<>>
  /\ LET rest == Tail(frame[h].pending)
         s1 == Step(kind[h], Local(h), Head(frame[h].pending))
         s == IF rest = <<>> THEN Return(s1) ELSE s1
     IN  /\ Commit(h, s)
         /\ frame' = [frame EXCEPT ![h] =
                        IF rest = <<>> \/ s.life = "crashed"
                          THEN NoFrame
                          ELSE [@ EXCEPT !.pending = rest,
                                         !.ctx = s.ctxHolds]]
  /\ UNCHANGED <<kind, idiom, delivery, waiter, engine>>
  /\ UNCHANGED fwdVars
  /\ UNCHANGED <<sh, py>>

\* A thread calls get() on the future linked to h: it returns at once when
\* the shared state is ready and blocks otherwise.
Wait(h) ==
  /\ Running
  /\ kind[h] \in FutureKinds
  /\ waiter[h].st = "idle"
  /\ waiter' = [waiter EXCEPT ![h] =
       IF Ready(prms[h])
         THEN [st |-> "released", wasBlocked |-> FALSE, got |-> prms[h]]
         ELSE [st |-> "blocked", wasBlocked |-> TRUE, got |-> NoPromise]]
  /\ UNCHANGED <<kind, idiom, life, called, prms, log, delivery, context>>
  /\ UNCHANGED fwdVars
  /\ UNCHANGED heapVars
  /\ UNCHANGED <<sh, py>>

\* The blocked thread is released once the shared state is ready.
Wake(h) ==
  /\ Running
  /\ waiter[h].st = "blocked"
  /\ Ready(prms[h])
  /\ waiter' = [waiter EXCEPT ![h] =
       [st |-> "released", wasBlocked |-> TRUE, got |-> prms[h]]]
  /\ UNCHANGED <<kind, idiom, life, called, prms, log, delivery, context>>
  /\ UNCHANGED fwdVars
  /\ UNCHANGED heapVars
  /\ UNCHANGED <<sh, py>>

\* FwdArg<T>( value, bucket ) is called on handler h.
CallFwdArg(h) ==
  /\ Running
  /\ life[h] = "live"
  /\ Len(fwds[h]) < MaxFwd
  /\ \E type \in ArgTypes, value \in Values, bucket \in Buckets :
       /\ store' = [store EXCEPT ![container[h]] =
                      FwdArg(@, type, value, bucket)]
       /\ fwds' = [fwds EXCEPT ![h] =
                     Append(@, [type |-> type, value |-> value,
                                bucket |-> bucket])]
  /\ UNCHANGED <<kind, idiom, life, called, prms, log, delivery, waiter,
                 container, context, lookup>>
  /\ UNCHANGED heapVars
  /\ UNCHANGED <<sh, py>>

\* The engine looks a key up on the container of handler h, which it reaches
\* through GetArgContainer.
ContainerGet(h) ==
  /\ Running
  /\ life[h] = "live"
  /\ \E key \in Keys :
       lookup' = [lookup EXCEPT ![h] =
         [via |-> "container", at |-> Len(fwds[h]), key |-> key,
          result |-> GetArg(store[GetArgContainer(container[h])], key)]]
  /\ UNCHANGED <<kind, idiom, life, called, prms, log, delivery, waiter,
                 container, store, context, fwds>>
  /\ UNCHANGED heapVars
  /\ UNCHANGED <<sh, py>>

\* The classes whose callable is handed an operation context by
\* Resp::Create.
ContextKinds == {"SimpleForwardingFunctionWrapper",
                 "ForwardingFunctionWrapper"}

\* Resp::Create on a callable that takes an operation context.
StageCreate(h) ==
  /\ Create(h)
  /\ kind'[h] \in ContextKinds

\* The outcome of a stage: a failure, or a success with a payload.
StageResponses == {r \in Responses : r.type = "T" /\ r.val = MaxVal}

\* The outcome of its operation is delivered to stage h; the callable looks
\* a key up through the context it is handed.
StageDeliver(h) ==
  DeliverWith(h, {"HandleResponse"}, DeliveredStatuses, StageResponses, Keys,
              {NoWrite})

\* The stages before stage h in the pipeline.
Before(h) == {g \in DOMAIN life : g < h}

\* The pipeline is assembled: every stage has its handler, and all of them
\* share the container of the first stage.
Assembled ==
  \A g \in DOMAIN life :
    /\ life[g] # "unused"
    /\ \A f \in Before(g) : container[g] = container[f]

\* The handler of stage h is built once those of the stages before it are.
PipeCreate(h) ==
  /\ \A g \in Before(h) : life[g] # "unused"
  /\ StageCreate(h)

\* The engine makes stage h share the container of the stage before it,
\* through the reference GetArgContainer returns.
PipeLink(h) ==
  /\ Running
  /\ life[h] = "live"
  /\ container[h] = h
  /\ \E g \in Before(h) :
       /\ g + 1 = h
       /\ life[g] = "live"
       /\ delivery[g] = NoDelivery
       /\ container' = [container EXCEPT ![h] =
                          GetArgContainer(container[g])]
  /\ freed' = IF UseCount(h) = 1
                THEN [freed EXCEPT ![h] = FreedBy(0, 0)]
                ELSE freed
  /\ UNCHANGED <<kind, idiom, life, called, prms, log, delivery, waiter,
                 store, context, lookup, fwds, engine, nullrefs, frame>>
  /\ UNCHANGED <<sh, py>>

\* The stages before h have completed with success: stage h is running.
Current(h) ==
  /\ Assembled
  /\ \A g \in Before(h) : life[g] = "deleted" /\ IsOK(delivery[g].status)

\* The handler of the running stage forwards one value.
PipeFwdArg(h) ==
  /\ Current(h)
  /\ fwds[h] = <<>>
  /\ CallFwdArg(h)

\* The outcome of the running stage is delivered to its handler.
PipeDeliver(h) ==
  /\ Current(h)
  /\ StageDeliver(h)

\* A stage before h failed: the pipeline stops and the handler of stage h is
\* destroyed without a delivery.
PipeAbandon(h) ==
  /\ Assembled
  /\ \E g \in Before(h) : life[g] = "deleted" /\ ~IsOK(delivery[g].status)
  /\ Abandon(h)

Next ==
  \E h \in Handlers :
    \/ Construct(h)
    \/ Create(h)
    \/ CreatePassThrough(h)
    \/ Deliver(h)
    \/ Abandon(h)
    \/ Wait(h)
    \/ Wake(h)

Spec == Init /\ [][Next]_vars

\* A thread blocked on a ready future is scheduled.
LiveSpec == Spec /\ \A h \in Handlers : WF_vars(Wake(h))

\* One handler whose callable takes a context, the values forwarded on it
\* and the lookups on its container.
ContainerInit == InitOn({1})

\* Values are forwarded on the handler, then they are looked up.
ContainerFwdArg(h) ==
  /\ lookup[h] = NoLookup
  /\ CallFwdArg(h)

ContainerNext ==
  \E h \in DOMAIN life :
    \/ StageCreate(h)
    \/ ContainerFwdArg(h)
    \/ ContainerGet(h)
    \/ StageDeliver(h)

ContainerSpec == ContainerInit /\ [][ContainerNext]_vars

\* A pipeline of two stages, stage A = 1 and stage B = 2, whose callables
\* take a context.
Stages == {1, 2}
PipeInit == InitOn(Stages)

\* The engine keeps a copy of the pointer GetArgContainer gives it for
\* stage h.
EngineHold(h) ==
  /\ Running
  /\ life[h] = "live"
  /\ engine = {}
  /\ engine' = {GetArgContainer(container[h])}
  /\ UNCHANGED <<kind, idiom, life, called, prms, log, delivery, waiter,
                 context, freed, nullrefs, frame>>
  /\ UNCHANGED fwdVars
  /\ UNCHANGED <<sh, py>>

\* The engine drops its copy of the pointer to container c.
EngineDrop(c) ==
  /\ Running
  /\ c \in engine
  /\ engine' = engine \ {c}
  /\ freed' = IF UseCount(c) = 1
                THEN [freed EXCEPT ![c] = FreedBy(0, 0)]
                ELSE freed
  /\ UNCHANGED <<kind, idiom, life, called, prms, log, delivery, waiter,
                 context, nullrefs, frame>>
  /\ UNCHANGED fwdVars
  /\ UNCHANGED <<sh, py>>

PipeNext ==
  \E h \in DOMAIN life :
    \/ PipeCreate(h)
    \/ PipeLink(h)
    \/ PipeFwdArg(h)
    \/ PipeDeliver(h)
    \/ PipeAbandon(h)
    \/ EngineHold(h)
    \/ EngineDrop(h)

PipeSpec == PipeInit /\ [][PipeNext]_vars

-----------------------------------------------------------------------------

\* One future bridge, the thread that delivers to it or destroys it, and
\* the thread that waits on its future; the two threads take turns between
\* any two statements.
WaiterInit == InitOn({1})

WaiterCreate(h) == Create(h) /\ kind'[h] \in FutureKinds
WaiterBegin(h) ==
  BeginWith(h, Entries, DeliveredStatuses, Responses, {NoWrite})

WaiterNext ==
  \E h \in DOMAIN life :
    \/ WaiterCreate(h)
    \/ WaiterBegin(h)
    \/ StepDelivery(h)
    \/ Abandon(h)
    \/ Wait(h)
    \/ Wake(h)

WaiterSpec == WaiterInit /\ [][WaiterNext]_vars

\* Two adapters of the classes that have a static nullref, each given
\* its outcome by a thread of its own; the callables may assign to the
\* response they are handed.
RaceHandlers == {1, 2}
RaceInit == InitOn(RaceHandlers)

RaceCreate(h) == Create(h) /\ kind'[h] \in ResponseKinds
RaceConstruct(h) == Construct(h) /\ kind'[h] \in ExOpenKinds
RaceBegin(h) ==
  BeginWith(h, {"HandleResponse"}, DeliveredStatuses,
            {[ptr |-> "obj", type |-> "T", val |-> MaxVal]},
            {NoWrite} \cup Writes)

RaceNext ==
  \E h \in DOMAIN life :
    \/ RaceCreate(h)
    \/ RaceConstruct(h)
    \/ RaceBegin(h)
    \/ StepDelivery(h)

RaceSpec == RaceInit /\ [][RaceNext]_vars

------------------------------------------------------------------------------
(* packaging/rhel/xrootd.functions *)

\* The instances handleDaemons may be given.
MaxInstances == 3
\* Exit statuses of the commands the script runs: success, failure, and
\* the 3 of `status` for a program that is not running.
ExitCodes == {0, 1, 3}
Commands == {"start", "stop", "status", "condrestart", "setup", "restart"}
Daemons == {"xrootd", "cmsd", "frm_purged", "frm_xfrd", "httpd"}
InstanceLists == UNION {[1..n -> BOOLEAN] : n \in 0..MaxInstances}
\* What the commands run by one handler answer: `status`, whether the pid
\* file exists, killproc, checkSanity, daemon.
Envs ==
  [status : ExitCodes, pidfile : BOOLEAN, killproc : ExitCodes,
   checkSanity : ExitCodes, daemon : ExitCodes]

\* The first case statement of handleDaemons.
CmdHandler(command) ==
  CASE command = "start" -> "startDaemon"
    [] command = "stop" -> "stopDaemon"
    [] command = "status" -> "statusOfTheDaemon"
    [] command = "condrestart" -> "condrestartDaemon"
    [] OTHER -> "none"

\* The second case statement of handleDaemons.
KnownDaemons == {"xrootd", "cmsd", "frm_purged", "frm_xfrd"}

\* startDaemon: its exit status and what it leaves in RETVAL.
startDaemon(RETVAL, env) ==
  IF env.checkSanity # 0
    THEN [rc |-> 1, RETVAL |-> RETVAL]
    ELSE [rc |-> env.daemon, RETVAL |-> Val(env.daemon)]

\* stopDaemon
stopDaemon(RETVAL, env) ==
  IF env.pidfile
    THEN [rc |-> env.killproc, RETVAL |-> Val(env.killproc)]
    ELSE [rc |-> 0, RETVAL |-> RETVAL]

\* statusOfTheDaemon: `return $RETVAL` is a plain `return`, hence the exit
\* status of `status`, when RETVAL is not set.
statusOfTheDaemon(RETVAL, env) ==
  [rc |-> IF RETVAL.set THEN RETVAL.val ELSE env.status, RETVAL |-> RETVAL]

\* A command run by condrestartDaemon.
CondCommand(at, RETVAL, env) ==
  CASE at = "status" -> [rc |-> env.status, RETVAL |-> RETVAL]
    [] at = "stopDaemon" -> stopDaemon(RETVAL, env)
    [] at = "startDaemon" -> startDaemon(RETVAL, env)

\* Mutant: the daemon is started whatever stopDaemon returned.
condrestartDaemon_IgnoresStop(at, rc) ==
  CASE at = "status" ->
         IF rc # 0 THEN [return |-> Val(0), at |-> "none"]
                   ELSE [return |-> Unset, at |-> "stopDaemon"]
    [] at = "stopDaemon" -> [return |-> Unset, at |-> "startDaemon"]
    [] at = "startDaemon" ->
         IF rc # 0 THEN [return |-> Val(2), at |-> "none"]
                   ELSE [return |-> Val(0), at |-> "none"]

\* condrestartDaemon after the command at `at` exited with rc: what it
\* returns, or the command it runs next.
condrestartDaemon(at, rc) ==
  CASE at = "status" ->
         IF rc # 0 THEN [return |-> Val(0), at |-> "none"]
                   ELSE [return |-> Unset, at |-> "stopDaemon"]
    [] at = "stopDaemon" ->
         IF rc # 0 THEN [return |-> Val(1), at |-> "none"]
                   ELSE [return |-> Unset, at |-> "startDaemon"]
    [] at = "startDaemon" ->
         IF rc # 0 THEN [return |-> Val(2), at |-> "none"]
                   ELSE [return |-> Val(0), at |-> "none"]

\* Mutant: a failure of any instance is kept.
StatusAfter_KeepsFailure(STATUS, rc) ==
  IF rc # 0 THEN 1 ELSE STATUS

\* `STATUS=$?` followed by `if test $? -ne 0 && ...; then STATUS=1; fi`,
\* where the second $? is the exit status of the assignment.
StatusAfter(STATUS, rc) ==
  LET assigned == rc
      assignment == 0
  IN  IF assignment # 0 THEN 1 ELSE assigned

\* handleDaemons is called: the two case statements and the setup command.
handleDaemons ==
  /\ sh.pc = "idle"
  /\ \E command \in Commands, daemon \in Daemons, opts \in InstanceLists,
        retval \in {Unset} \cup {Val(v) : v \in ExitCodes},
        setup \in ExitCodes :
       sh' = IF command = "setup"
               THEN [sh EXCEPT !.pc = "done", !.COMMAND = command,
                               !.RETVAL = retval, !.ret = Val(setup)]
               ELSE IF CmdHandler(command) = "none"
                 THEN [sh EXCEPT !.pc = "done", !.COMMAND = command,
                                 !.RETVAL = retval, !.ret = Val(1)]
                 ELSE IF daemon \notin KnownDaemons
                   THEN [sh EXCEPT !.pc = "done", !.COMMAND = command,
                                   !.CMD_HANDLER = CmdHandler(command),
                                   !.DAEMON = daemon, !.RETVAL = retval,
                                   !.ret = Val(1)]
                   ELSE [sh EXCEPT !.pc = "loop", !.COMMAND = command,
                                   !.CMD_HANDLER = CmdHandler(command),
                                   !.DAEMON = daemon, !.RETVAL = retval,
                                   !.OPTS = opts, !.STATUS = 0]
  /\ UNCHANGED handlerVars
  /\ UNCHANGED py

\* The handler has returned rc for the instance of this iteration.
Ran(s, rc, retval, steps) ==
  [s EXCEPT !.pc = "loop", !.done = @ + 1, !.at = "none", !.steps = <<>>,
            !.RETVAL = retval,
            !.STATUS = StatusAfter(s.STATUS, rc),
            !.ran = Append(@, [instance |-> s.done + 1,
                               handler |-> s.CMD_HANDLER,
                               rc |-> rc, steps |-> steps])]

\* One iteration of the loop over $INSTANCES: an instance without options
\* is skipped, for another the command handler is called.  startDaemon,
\* stopDaemon and statusOfTheDaemon run to their end.
RunInstance ==
  /\ sh.pc = "loop"
  /\ sh.done < Len(sh.OPTS)
  /\ IF ~sh.OPTS[sh.done + 1]
       THEN sh' = [sh EXCEPT !.done = @ + 1]
       ELSE IF sh.CMD_HANDLER = "condrestartDaemon"
         THEN sh' = [sh EXCEPT !.pc = "condrestart", !.at = "status"]
         ELSE \E env \in Envs :
                LET r == CASE sh.CMD_HANDLER = "startDaemon" ->
                                startDaemon(sh.RETVAL, env)
                           [] sh.CMD_HANDLER = "stopDaemon" ->
                                stopDaemon(sh.RETVAL, env)
                           [] sh.CMD_HANDLER = "statusOfTheDaemon" ->
                                statusOfTheDaemon(sh.RETVAL, env)
                IN  sh' = Ran(sh, r.rc, r.RETVAL, <<>>)
  /\ UNCHANGED handlerVars
  /\ UNCHANGED py

\* condrestartDaemon runs its next command and tests its exit status.
CondrestartStep ==
  /\ sh.pc = "condrestart"
  /\ \E env \in Envs :
       LET r == CondCommand(sh.at, sh.RETVAL, env)
           steps == Append(sh.steps, [cmd |-> sh.at, rc |-> r.rc])
           next == condrestartDaemon(sh.at, r.rc)
       IN  sh' = IF next.return.set
                   THEN Ran(sh, next.return.val, r.RETVAL, steps)
                   ELSE [sh EXCEPT !.at = next.at, !.steps = steps,
                                   !.RETVAL = r.RETVAL]
  /\ UNCHANGED handlerVars
  /\ UNCHANGED py

\* The loop is over: `return $STATUS`.
ReturnStatus ==
  /\ sh.pc = "loop"
  /\ sh.done = Len(sh.OPTS)
  /\ sh' = [sh EXCEPT !.pc = "done", !.ret = Val(sh.STATUS)]
  /\ UNCHANGED handlerVars
  /\ UNCHANGED py

ShellInit == InitOn({})

ShellNext ==
  \/ handleDaemons
  \/ RunInstance
  \/ CondrestartStep
  \/ ReturnStatus

ShellSpec == ShellInit /\ [][ShellNext]_vars

------------------------------------------------------------------------------
(* The macaroon tool (python 2) *)

\* HTTP status codes the issuer answers with; requests.codes.ok is 200.
StatusCodes == {200, 404, 500}
\* The body of the answer of the auto-discovery URL: not JSON at all, or
\* JSON for a number, a list, or an object, the latter with a token_endpoint
\* field (naming endpoint e) or without (0).
Texts ==
  {[json |-> j, token_endpoint |-> 0] :
     j \in {"not JSON", "number", "list", "object"}}
  \cup {[json |-> "object", token_endpoint |-> e] : e \in Values}
Answers == [status_code : StatusCodes, text : Texts]

\* `print >> sys.stderr, "..."` in a module that has
\* `from __future__ import print_function`: print is the builtin function,
\* the statement is the tuple expression ( print >> sys.stderr, "..." ), and
\* >> is not defined between a builtin function and a file: TypeError is
\* raised and what follows the statement (then) is not reached.
PrintChevron(then) == Raised("TypeError")

\* get_token_endpoint on the answer of requests.get( config_url ); a missing
\* answer is the exception requests.get raised.
get_token_endpoint(response) ==
  IF response = NoAnswer
    THEN Raised("ConnectionError")
    ELSE IF response.text.json = "not JSON"
      THEN Raised("ValueError")
      ELSE IF response.status_code # 200
        THEN PrintChevron(Raised("NoTokenEndpoint"))
        ELSE IF response.text.json = "number"
          THEN Raised("TypeError")
          ELSE IF response.text.token_endpoint = 0
            THEN PrintChevron(Raised("NoTokenEndpoint"))
            ELSE Returned_(response.text.token_endpoint)

\* The token request of generate_token and of generate_token_oauth once
\* the URL is known: the activities are joined, the request is posted, and
\* the answer is returned when its status is ok; sys.exit( 1 ) otherwise.
PostFor(s, fn, url, status_code, token) ==
  IF ~s.activity
    THEN [s EXCEPT !.pc = "traceback", !.raised = "TypeError",
                   !.called = Append(@, fn), !.exit = 1]
    ELSE IF status_code = 200
      THEN [s EXCEPT !.pc = "token", !.called = Append(@, fn),
                     !.posted = url, !.token = token]
      ELSE [s EXCEPT !.pc = "exit", !.called = Append(@, fn),
                     !.posted = url, !.exit = 1]

\* parse_args: the validity, and the activities if --activity was given.
ParseArgs ==
  /\ py.pc = "start"
  /\ \E validity \in Values, activity \in BOOLEAN :
       py' = [py EXCEPT !.pc = "oauth", !.validity = validity,
                        !.activity = activity,
                        !.called = Append(@, "parse_args")]
  /\ UNCHANGED handlerVars
  /\ UNCHANGED sh

\* main calls generate_token_oauth, which calls get_token_endpoint.
Discover ==
  /\ py.pc = "oauth"
  /\ \E response \in Answers \cup {NoAnswer} :
       py' = [py EXCEPT !.pc = "discovered", !.response = response,
                        !.outcome = get_token_endpoint(response),
                        !.called = @ \o <<"generate_token_oauth",
                                          "get_token_endpoint">>]
  /\ UNCHANGED handlerVars
  /\ UNCHANGED sh

\* get_token_endpoint is over.  With an endpoint generate_token_oauth goes
\* on and posts the request to it; main catches NoTokenEndpoint and calls
\* generate_token on the URL it was given; any other exception leaves main.
RequestToken ==
  /\ py.pc = "discovered"
  /\ \E status_code \in StatusCodes, token \in Values :
       py' = CASE py.outcome.raised = "none" ->
                    PostFor(py, "session.post", "token_endpoint",
                            status_code, token)
               [] py.outcome.raised = "NoTokenEndpoint" ->
                    PostFor(py, "generate_token", "url", status_code, token)
               [] OTHER ->
                    [py EXCEPT !.pc = "traceback",
                               !.raised = py.outcome.raised, !.exit = 1]
  /\ UNCHANGED handlerVars
  /\ UNCHANGED sh

\* print( token )
PrintToken ==
  /\ py.pc = "token"
  /\ py' = [py EXCEPT !.pc = "done", !.called = Append(@, "print")]
  /\ UNCHANGED handlerVars
  /\ UNCHANGED sh

PyInit == InitOn({})

PyNext ==
  \/ ParseArgs
  \/ Discover
  \/ RequestToken
  \/ PrintToken

PySpec == PyInit /\ [][PyNext]_vars

------------------------------------------------------------------------------
(* Properties *)

Delivered(h) == delivery[h] # NoDelivery
\* The delivery to h returned to the engine.
Returned(h) == Delivered(h) /\ life[h] # "crashed"
\* The callable invocations h made, in order.
Calls(h) == SelectSeq(log[h], LAMBDA e : e.op = "call")
\* How many times h performed effect e.
Times(h, e) == Cardinality({i \in DOMAIN log[h] : log[h][i] = e})
\* How many times h set its promise.
Resolutions(h) ==
  Cardinality({i \in DOMAIN log[h] :
                 log[h][i].op \in {"prms.set_value", "prms.set_exception"}})
\* How many effects with operation op h performed.
TimesOp(h, op) == Cardinality({i \in DOMAIN log[h] : log[h][i].op = op})

\* C1: a (status, response) or (status, response, context) callable that
\* went through Resp<Response>::Create and whose handler was delivered a
\* success outcome holding payload R has been invoked exactly once, with the
\* OK status and with the payload R as its response.
C1_CallableGetsPayload ==
  \A h \in Handlers :
    (/\ idiom[h] \in {"function(status,response)",
                      "function(status,response,context)"}
     /\ Delivered(h)
     /\ IsOK(delivery[h].status)
     /\ delivery[h].response.ptr = "obj"
     /\ delivery[h].response.type = "T")
    => Calls(h) = <<Call(delivery[h].status,
                         [ref |-> "payload", val |-> delivery[h].response.val],
                         idiom[h] = "function(status,response,context)")>>

C1_Witness ==
  \E h \in Handlers :
    /\ idiom[h] = "function(status,response,context)"
    /\ IsOK(delivery[h].status)
    /\ delivery[h].response = [ptr |-> "obj", type |-> "T", val |-> MaxVal]
    /\ Len(Calls(h)) = 1
    /\ Calls(h)[1].res.val = MaxVal

\* C2: every handler that frees the outcome itself (all classes but
\* WrappingHandler) never frees anything twice, and once a delivery to it
\* has returned, on the success or on the failure path, it has executed
\* delete on the delivered status once, on the delivered response once and
\* on itself once; it is then deleted and cannot be delivered to again.
C2_OutcomeAndHandlerFreedOnce ==
  \A h \in Handlers :
    kind[h] \in Kinds \ {"WrappingHandler"} =>
      /\ TimesOp(h, "delete status") <= 1
      /\ TimesOp(h, "delete response") <= 1
      /\ TimesOp(h, "delete info") <= 1
      /\ TimesOp(h, "delete this") <= 1
      /\ Returned(h) =>
           /\ Times(h, DeleteStatus(delivery[h].status)) = 1
           /\ Times(h, DeleteResponse(delivery[h].response)) = 1
           /\ Times(h, DeleteThis) = 1
           /\ log[h][Len(log[h])] = DeleteThis
           /\ life[h] = "deleted"
           /\ ~ENABLED Deliver(h)

C2_Witness ==
  \E h \in Handlers :
    /\ kind[h] = "ForwardingHandler"
    /\ Returned(h)
    /\ ~IsOK(delivery[h].status)
    /\ delivery[h].response.ptr = "obj"
    /\ life[h] = "deleted"
    /\ TimesOp(h, "delete response") = 1

\* C3: a thread that waited on the future of a FutureWrapper<Response> gets
\* the payload R after a success delivery holding R, and an exception whose
\* status is the delivered status S after a failure delivery; the handler
\* has by then freed the delivered status and deleted itself.
C3_FutureYieldsDelivered ==
  \A h \in Handlers :
    (kind[h] = "FutureWrapper" /\ Delivered(h) /\ waiter[h].st = "released") =>
      /\ (/\ IsOK(delivery[h].status)
          /\ delivery[h].response.ptr = "obj"
          /\ delivery[h].response.type = "T")
         => waiter[h].got =
              [state |-> "value",
               res |-> [ref |-> "payload", val |-> delivery[h].response.val],
               err |-> NoStatus]
      /\ ~IsOK(delivery[h].status)
         => /\ waiter[h].got = [state |-> "exception", res |-> NoRes,
                                err |-> delivery[h].status]
            /\ life[h] = "deleted"
            /\ Times(h, DeleteStatus(delivery[h].status)) = 1

C3_Witness ==
  \E h \in Handlers :
    /\ kind[h] = "FutureWrapper"
    /\ delivery[h].status = StatusFailed
    /\ life[h] = "deleted"
    /\ Times(h, DeleteStatus(StatusFailed)) = 1
    /\ waiter[h].st = "released"
    /\ waiter[h].got.err = StatusFailed

\* C4: no future wrapper is ever gone with its future unresolved, and a
\* thread blocked on the future of a wrapper that has been delivered to or
\* destroyed is eventually released (or the process has died).
C4_WaiterReleased ==
  /\ [](\A h \in Handlers :
          (kind[h] \in FutureKinds /\ life[h] = "deleted") => Ready(prms[h]))
  /\ \A h \in Handlers :
       (waiter[h].st = "blocked" /\ life[h] = "deleted")
         ~> (waiter[h].st = "released" \/ ~Running)

C4_Witness ==
  \E h \in Handlers :
    /\ kind[h] \in FutureKinds
    /\ life[h] = "deleted"
    /\ waiter[h].st = "released"
    /\ waiter[h].wasBlocked

\* C5: a future wrapper, typed or void, that was destroyed without a
\* delivery has set its promise to the exception carrying
\* XRootDStatus( stError, errPipelineFailed ), and to no value.
C5_AbandonedFuturePipelineFailed ==
  \A h \in Handlers :
    (kind[h] \in FutureKinds /\ life[h] = "deleted" /\ ~Delivered(h)) =>
      /\ prms[h] = [state |-> "exception", res |-> NoRes,
                    err |-> PipelineFailed]
      /\ TimesOp(h, "prms.set_value") = 0

C5_Witness ==
  \E h \in Handlers :
    /\ kind[h] = "FutureWrapperVoid"
    /\ life[h] = "deleted"
    /\ ~Delivered(h)
    /\ waiter[h].st = "released"
    /\ waiter[h].got.err = PipelineFailed

\* C6: the promise of a future wrapper is set (set_value or set_exception)
\* at most once in any state, and exactly once when the wrapper is gone,
\* whether a delivery or an abandonment ended it; the future is ready
\* exactly when the promise has been set.
C6_PromiseSetOnce ==
  \A h \in Handlers :
    kind[h] \in FutureKinds =>
      /\ Resolutions(h) <= 1
      /\ life[h] = "deleted" => Resolutions(h) = 1
      /\ Ready(prms[h]) <=> Resolutions(h) = 1

C6_Witness ==
  \E h \in Handlers :
    /\ kind[h] = "FutureWrapperVoid"
    /\ Delivered(h)
    /\ IsOK(delivery[h].status)
    /\ life[h] = "deleted"
    /\ Resolutions(h) = 1
    /\ prms[h].state = "value"

\* C7: every invocation made by a handler whose callable takes a response
\* passes a valid object, the extracted payload on success and the
\* placeholder on failure, never a null reference, and no delivery to such a
\* handler dereferences a null pointer.
C7_ResponseNeverNull ==
  \A h \in Handlers :
    kind[h] \in ResponseKinds =>
      /\ life[h] # "crashed"
      /\ \A i \in DOMAIN log[h] :
           log[h][i].op = "call" =>
             log[h][i].res.ref =
               (IF IsOK(log[h][i].status) THEN "payload" ELSE "nullref")

\* C8: a (status) or (status, context) callable that went through
\* Resp<void>::Create has, after one delivery, been invoked exactly once
\* with the delivered status, on success and on failure, whatever the
\* response pointer was: the response is not read.
C8_VoidCallableOnce ==
  \A h \in Handlers :
    (idiom[h] \in {"function(status)", "function(status,context)"}
     /\ Delivered(h)) =>
      /\ life[h] = "deleted"
      /\ Calls(h) = <<Call(delivery[h].status, NoRes,
                           idiom[h] = "function(status,context)")>>

C8_Witness ==
  \E h \in Handlers :
    /\ idiom[h] = "function(status,context)"
    /\ delivery[h].entry = "HandleResponse"
    /\ delivery[h].status = StatusFailed
    /\ delivery[h].response = NullResponse
    /\ Len(Calls(h)) = 1
    /\ Calls(h)[1].status = StatusFailed

\* C9: a delivery to a WrappingHandler calls the wrapped handler exactly
\* once, through the entry point the engine used and with the same status,
\* response and host list, and then deletes the WrappingHandler, which
\* cannot be delivered to again.
C9_WrappingForwardsUnchanged ==
  \A h \in Handlers :
    (kind[h] = "WrappingHandler" /\ Delivered(h)) =>
      /\ log[h] =
           <<IF delivery[h].entry = "HandleResponseWithHosts"
               THEN ForwardWithHosts(delivery[h].status, delivery[h].response,
                                     "hostList")
               ELSE Forward(delivery[h].status, delivery[h].response),
             DeleteThis>>
      /\ life[h] = "deleted"
      /\ ~ENABLED Deliver(h)

C9_Witness ==
  \E h \in Handlers :
    /\ kind[h] = "WrappingHandler"
    /\ delivery[h].entry = "HandleResponseWithHosts"
    /\ IsOK(delivery[h].status)
    /\ Len(log[h]) = 2
    /\ log[h][1].hosts = "hostList"
    /\ life[h] = "deleted"

\* C10: the only thing a WrappingHandler ever deletes is itself, once: it
\* performs no delete on the status, the response, the host list or the
\* wrapped handler, which it only calls.
C10_WrappingDeletesOnlyItself ==
  \A h \in Handlers :
    kind[h] = "WrappingHandler" =>
      /\ \A i \in DOMAIN log[h] :
           log[h][i].op \in {"handler->HandleResponse",
                             "handler->HandleResponseWithHosts",
                             "delete this"}
      /\ TimesOp(h, "delete this") <= 1
      /\ TimesOp(h, "delete this") = 1 <=> life[h] = "deleted"

C10_Witness ==
  \E h \in Handlers :
    /\ kind[h] = "WrappingHandler"
    /\ delivery[h].entry = "HandleResponse"
    /\ delivery[h].response.ptr = "obj"
    /\ life[h] = "deleted"
    /\ TimesOp(h, "delete this") = 1
    /\ TimesOp(h, "delete response") = 0

\* The positions in h's log of the effects with operation op.
Positions(h, op) == {i \in DOMAIN log[h] : log[h][i].op = op}

\* C11: an ExOpenFuncWrapper or ForwardingExOpenFuncWrapper that was
\* delivered a failure has not called File::Stat; one that was delivered a
\* success has called it exactly once, before it invoked the callable, and
\* the StatInfo that call allocated is what the callable received and has
\* been deleted exactly once, after the callable.
C11_StatOnceInfoFreedOnce ==
  \A h \in Handlers :
    (kind[h] \in ExOpenKinds /\ Delivered(h)) =>
      /\ ~IsOK(delivery[h].status) => Positions(h, "f.Stat") = {}
      /\ IsOK(delivery[h].status) =>
           /\ Cardinality(Positions(h, "f.Stat")) = 1
           /\ Cardinality(Positions(h, "call")) = 1
           /\ \A i \in Positions(h, "f.Stat"), j \in Positions(h, "call") :
                /\ i < j
                /\ log[h][j].res = log[h][i].res
                /\ log[h][i].res # NullPtr =>
                     /\ Times(h, DeleteInfo(log[h][i].res)) = 1
                     /\ Positions(h, "delete info") = {j + 1}

C11_Witness ==
  \E h \in Handlers :
    /\ kind[h] = "ForwardingExOpenFuncWrapper"
    /\ IsOK(delivery[h].status)
    /\ Times(h, Stat([ref |-> "info", val |-> MaxVal])) = 1
    /\ Times(h, DeleteInfo([ref |-> "info", val |-> MaxVal])) = 1
    /\ life[h] = "deleted"

\* The value the last of the FwdArg calls stored under the key, the
\* missing-key error if none of them stored there.
LastSet(calls, key) ==
  LET at == {i \in DOMAIN calls : /\ calls[i].type = key.type
                                  /\ calls[i].bucket = key.bucket}
  IN  IF at = {}
        THEN MissingKey
        ELSE [ok |-> TRUE,
              val |-> calls[CHOOSE i \in at : \A j \in at : j <= i].value]

\* C12: after any sequence of FwdArg calls on a handler, a lookup of
\* (T, bucket), on its container or through the context it hands to its
\* callable, returned the value of the last call that stored under exactly
\* (T, bucket): a later call on the same key replaced the value, calls on
\* another type or another bucket did not change it.
C12_GetReturnsLastSet ==
  \A h \in DOMAIN lookup :
    (lookup[h].via # "none"
       /\ LastSet(SubSeq(fwds[h], 1, lookup[h].at), lookup[h].key).ok)
    => lookup[h].result = LastSet(SubSeq(fwds[h], 1, lookup[h].at),
                                  lookup[h].key)

\* A value was stored under a key and then one under another bucket of the
\* same type; the lookup of the first key returned the first value.
C12_Witness ==
  \E h \in DOMAIN lookup :
    /\ lookup[h].via = "context"
    /\ lookup[h].at = MaxFwd
    /\ fwds[h][1].type = lookup[h].key.type
    /\ fwds[h][1].bucket = lookup[h].key.bucket
    /\ fwds[h][2].type = lookup[h].key.type
    /\ fwds[h][2].bucket # lookup[h].key.bucket
    /\ lookup[h].result = [ok |-> TRUE, val |-> fwds[h][1].value]

\* C13: a lookup, on the container or through an operation context, of a
\* key under which no FwdArg call stored anything ends with the missing-key
\* error, never with a value, and no lookup changes a container.
C13_MissingKeyFails ==
  [][\A h \in DOMAIN lookup :
       lookup'[h] # lookup[h] =>
         /\ store' = store
         /\ ~LastSet(fwds[h], lookup'[h].key).ok
              => lookup'[h].result = MissingKey]_vars

\* A lookup through the context of a key that another bucket of the same
\* type holds ended with the missing-key error.
C13_Witness ==
  \E h \in DOMAIN lookup :
    /\ lookup[h].via = "context"
    /\ lookup[h].result = MissingKey
    /\ Len(fwds[h]) = 1
    /\ fwds[h][1].type = lookup[h].key.type
    /\ fwds[h][1].bucket # lookup[h].key.bucket

\* C14: the value the handler of stage A stored with FwdArg<T>( v, bucket )
\* is what the callable of a later stage B got when it looked (T, bucket)
\* up through the context it was handed, unless the handler of B stored
\* under (T, bucket) itself.
C14_LaterStageReadsForwarded ==
  \A a \in DOMAIN lookup, b \in DOMAIN lookup :
    (/\ a < b
     /\ lookup[b].via = "context"
     /\ LastSet(fwds[a], lookup[b].key).ok
     /\ ~LastSet(fwds[b], lookup[b].key).ok)
    => lookup[b].result = LastSet(fwds[a], lookup[b].key)

\* Stage A stored MaxVal under T in the default bucket, the callable of
\* stage B, a ForwardingFunctionWrapper, read it back.
C14_Witness ==
  /\ kind[2] = "ForwardingFunctionWrapper"
  /\ fwds[1] = <<[type |-> "T", value |-> MaxVal, bucket |-> DefaultBucket]>>
  /\ fwds[2] = <<>>
  /\ lookup[2].via = "context"
  /\ lookup[2].key = [type |-> "T", bucket |-> DefaultBucket]
  /\ lookup[2].result = [ok |-> TRUE, val |-> MaxVal]

\* h invoked its callable with a context.
HandedContext(h) ==
  \E i \in DOMAIN log[h] : log[h][i].op = "call" /\ log[h][i].ctx

\* C20, as claimed: the context an adapter hands to its callable views a
\* container other than the one the adapter owns and populates with FwdArg.
C20_ContextDistinctFromOwn ==
  \A h \in DOMAIN context :
    HandedContext(h) => context[h] # container[h]

\* C20, amended: the context an adapter hands to its callable views the
\* adapter's container member, the very container its FwdArg populates: a
\* value stored with FwdArg on the adapter is what its own callable got
\* when it looked the key up through the context.
C20_ContextViewsOwnContainer ==
  \A h \in DOMAIN context :
    HandedContext(h) =>
      /\ context[h] # 0
      /\ context[h] = container[h]
      /\ (lookup[h].via = "context" /\ LastSet(fwds[h], lookup[h].key).ok)
           => lookup[h].result = LastSet(fwds[h], lookup[h].key)

\* The callable of stage A read back what FwdArg on stage A had stored.
C20_Witness ==
  /\ HandedContext(1)
  /\ context[1] = container[1]
  /\ fwds[1] = <<[type |-> "U", value |-> MaxVal, bucket |-> MaxBucket]>>
  /\ lookup[1].via = "context"
  /\ lookup[1].result = [ok |-> TRUE, val |-> MaxVal]

\* C15: a step in which a factory is given a ForwardingHandler, by pointer
\* or by reference, is taken on a handler that existed before the step and
\* leaves its class as it was; no handler is constructed in the step, and
\* the handler is not a WrappingHandler.
C15_PassThroughSameObject ==
  [][\A h \in Handlers :
       (idiom'[h] \in PassThroughIdioms /\ idiom[h] # idiom'[h]) =>
         /\ life[h] = "live"
         /\ kind'[h] = kind[h]
         /\ kind'[h] # "WrappingHandler"
         /\ life' = life
         /\ container' = container]_vars

\* A ForwardingExOpenFuncWrapper went through a factory by reference and
\* was delivered to, without a forward to a wrapped handler.
C15_Witness ==
  \E h \in Handlers :
    /\ idiom[h] = "ForwardingHandler&"
    /\ kind[h] = "ForwardingExOpenFuncWrapper"
    /\ Returned(h)
    /\ Positions(h, "call") # {}
    /\ Positions(h, "handler->HandleResponse") = {}

\* The adapter classes for a shape: the handler itself for a
\* ForwardingHandler, the object-sink adapter for a ResponseHandler, a
\* future bridge for a future, and for a callable the wrapper with its
\* signature.
AdaptersFor(shape) ==
  CASE shape \in PassThroughIdioms -> DirectKinds
    [] shape \in {"ResponseHandler*", "ResponseHandler&"} ->
         {"WrappingHandler"}
    [] shape = "std::future" -> FutureKinds
    [] shape = "function(status)" -> {"SimpleFunctionWrapper"}
    [] shape = "function(status,context)" ->
         {"SimpleForwardingFunctionWrapper"}
    [] shape = "function(status,response)" -> {"FunctionWrapper"}
    [] shape = "function(status,response,context)" ->
         {"ForwardingFunctionWrapper"}

\* The values for which overload resolution finds two best overloads.
Ambiguous ==
  {c \in Factories \X Idioms : Cardinality(Selected(c[1], c[2])) > 1}

\* C16: no shape selects two overloads of a factory; every handler a
\* factory returned for a value has the one adapter class of the value's
\* shape, selected by the overload for exactly that shape; and every
\* handler that exists has a class, so that nothing is left to reject at
\* delivery: a value no overload takes constructs nothing.
C16_FactoryIsFunction ==
  /\ Ambiguous = {}
  /\ \A h \in Handlers :
       /\ life[h] # "unused" => kind[h] \in Kinds
       /\ idiom[h] # "none" =>
            /\ \E factory \in Factories :
                 Selected(factory, idiom[h]) = {idiom[h]}
            /\ kind[h] \in AdaptersFor(idiom[h])

\* A callable with a context went through Resp<void>::Create, which has no
\* overload for a (status, response, context) callable.
C16_Witness ==
  \E h \in Handlers :
    /\ idiom[h] = "function(status,context)"
    /\ kind[h] = "SimpleForwardingFunctionWrapper"
    /\ Selected("Resp<void>", "function(status,response,context)") = {}
    /\ Delivered(h)

\* The handler was destroyed without a delivery.
Abandoned(h) == life[h] = "deleted" /\ ~Delivered(h)

\* C17, as claimed: a wrapper of a callable that was destroyed before any
\* delivery has invoked its callable, with a failure status.
C17_AbandonedCallbackGetsFailure ==
  \A h \in Handlers :
    (kind[h] \in ResponseKinds \cup VoidKinds /\ Abandoned(h)) =>
      /\ Len(Calls(h)) = 1
      /\ ~IsOK(Calls(h)[1].status)

\* C17, amended: a wrapper of a callable that was destroyed before any
\* delivery has never invoked its callable: its destruction does nothing
\* but delete the wrapper.
C17_AbandonedCallbackSilent ==
  \A h \in Handlers :
    (kind[h] \in ResponseKinds \cup VoidKinds /\ Abandoned(h)) =>
      /\ Calls(h) = <<>>
      /\ log[h] = <<DeleteThis>>

C17_Witness ==
  \E h \in Handlers :
    /\ kind[h] = "FunctionWrapper"
    /\ Abandoned(h)
    /\ Calls(h) = <<>>

\* What a delivery through HandleResponse can make of a new handler of
\* class k with container c.
PlainOutcomes(k, c, status, response) ==
  {Return(Exec(k, LocalOf("live", FALSE,
                          IF k \in FutureKinds THEN PendingPromise
                                               ELSE NoPromise,
                          <<>>, c, 0, 1, FALSE, nullref.val, NoWrite),
               effects)) :
     effects \in HandleResponse(k, status, response)}

\* C18: a delivery through HandleResponseWithHosts to a handler of a class
\* that does not override it has freed the host list exactly once, first,
\* and has otherwise done what a delivery of the same outcome through
\* HandleResponse does: the same effects in the same order, with the same
\* promise and the same end of the handler.  A ForwardingHandler of the
\* base class delivered to through HandleResponse has invoked nothing and
\* has freed the status, the response and itself.
C18_WithHostsRefinesPlain ==
  \A h \in Handlers :
    /\ (/\ kind[h] \in Kinds \ {"WrappingHandler"}
        /\ delivery[h].entry = "HandleResponseWithHosts")
       => /\ Times(h, DeleteHostList("hostList")) = 1
          /\ TimesOp(h, "delete hostList") = 1
          /\ \E o \in PlainOutcomes(kind[h], container[h],
                                     delivery[h].status,
                                     delivery[h].response) :
               /\ log[h] = <<DeleteHostList("hostList")>> \o o.log
               /\ life[h] = o.life
               /\ called[h] = o.called
               /\ prms[h] = o.prms
               /\ context[h] = o.context
    /\ (/\ kind[h] = "ForwardingHandler"
        /\ delivery[h].entry = "HandleResponse")
       => /\ log[h] = <<DeleteStatus(delivery[h].status),
                        DeleteResponse(delivery[h].response), DeleteThis>>
          /\ life[h] = "deleted"

\* A ForwardingFunctionWrapper was delivered a success with a payload
\* through HandleResponseWithHosts and invoked its callable.
C18_Witness ==
  \E h \in Handlers :
    /\ kind[h] = "ForwardingFunctionWrapper"
    /\ delivery[h].entry = "HandleResponseWithHosts"
    /\ IsOK(delivery[h].status)
    /\ log[h][1] = DeleteHostList("hostList")
    /\ Len(Calls(h)) = 1
    /\ life[h] = "deleted"

\* C19: after a failure delivery with status S to a FutureWrapper<void> the
\* promise holds an exception with status S, and after a success delivery
\* it is completed without a value; a thread that waited on the future got
\* exactly that.
C19_VoidFutureOutcome ==
  \A h \in Handlers :
    (kind[h] = "FutureWrapperVoid" /\ Delivered(h)) =>
      /\ prms[h] = IF IsOK(delivery[h].status)
                     THEN [state |-> "value", res |-> NoRes,
                           err |-> NoStatus]
                     ELSE [state |-> "exception", res |-> NoRes,
                           err |-> delivery[h].status]
      /\ waiter[h].st = "released" => waiter[h].got = prms[h]

\* A thread blocked on the future of a FutureWrapper<void> was released
\* with the delivered failure.
C19_Witness ==
  \E h \in Handlers :
    /\ kind[h] = "FutureWrapperVoid"
    /\ delivery[h].status = StatusFailed
    /\ waiter[h].st = "released"
    /\ waiter[h].wasBlocked
    /\ waiter[h].got.state = "exception"
    /\ waiter[h].got.err = StatusFailed

\* ArgsContainer c has been allocated: the constructor of handler c ran.
Allocated(c) == kind[c] # "none"

\* C21: while the process runs, an allocated container has been destroyed
\* exactly when no handler, no context in scope and not the engine holds a
\* share of it, and a container that has not been allocated has not been
\* destroyed; when the adapter that handed a context to its callable
\* released the last share, the container was destroyed after every effect
\* of the delivery, hence after the callable returned and after the
\* adapter deleted itself, when the context went out of scope.
C21_ContainerFreedWithLastShare ==
  Running =>
    /\ \A c \in DOMAIN freed :
         freed[c].freed <=> (Allocated(c) /\ UseCount(c) = 0)
    /\ \A h \in DOMAIN life :
         (HandedContext(h) /\ freed[context[h]].freed
            /\ freed[context[h]].by = h) =>
           /\ freed[context[h]].at = Len(log[h]) + 1
           /\ log[h][Len(log[h])] = DeleteThis
           /\ \A i \in DOMAIN log[h] :
                log[h][i].op = "call" => i < freed[context[h]].at

\* The second stage gave up its own container to share that of the first,
\* the first was deleted, and the context of the second stage released
\* the last share after the stage had deleted itself.
C21_Witness ==
  /\ HandedContext(2)
  /\ context[2] = 1
  /\ life[1] = "deleted"
  /\ life[2] = "deleted"
  /\ freed[2] = FreedBy(0, 0)
  /\ freed[1] = FreedBy(2, Len(log[2]) + 1)

\* The responses h's callable was handed on a failure delivery.
FailureCalls(h) ==
  SelectSeq(log[h], LAMBDA e : e.op = "call" /\ ~IsOK(e.status))

\* C22, as claimed: on every failure delivery, whatever was delivered
\* before to any adapter, the callable is handed the placeholder and finds
\* in it the value of a default-constructed response.
C22_PlaceholderAlwaysDefault ==
  \A h \in DOMAIN log :
    \A i \in DOMAIN FailureCalls(h) : FailureCalls(h)[i].res = nullref

\* C23, as claimed: a success delivery to an open+metadata adapter does not
\* end the process, and every invocation it makes with a success status
\* passes the StatInfo the metadata fetch produced, also when the fetch
\* fails.
C23_SuccessCallGetsMetadata ==
  \A h \in DOMAIN life :
    (kind[h] \in ExOpenKinds /\ Delivered(h) /\ IsOK(delivery[h].status)) =>
      /\ life[h] # "crashed"
      /\ \A i \in DOMAIN log[h] :
           log[h][i].op = "call" => log[h][i].res.ref = "info"

\* The adapters that invoke a callable.
CallbackKinds == ResponseKinds \cup VoidKinds \cup ExOpenKinds

\* C24: in a delivery to a callback or open+metadata adapter the callable
\* was invoked before the status was freed, the status and the response
\* were freed before the adapter deleted itself, and the deletion of the
\* adapter is the last thing the delivery did; a delivery that returned
\* did each of the four exactly once.
C24_CallThenFreeThenDeleteThis ==
  \A h \in DOMAIN life :
    (kind[h] \in CallbackKinds /\ Delivered(h)) =>
      /\ \A i \in Positions(h, "call"), j \in Positions(h, "delete status") :
           i < j
      /\ \A j \in Positions(h, "delete status")
                   \cup Positions(h, "delete response"),
            k \in Positions(h, "delete this") : j < k
      /\ \A k \in Positions(h, "delete this") : k = Len(log[h])
      /\ Returned(h) =>
           \A op \in {"call", "delete status", "delete response",
                      "delete this"} :
             Cardinality(Positions(h, op)) = 1

\* A ForwardingFunctionWrapper was delivered a failure through
\* HandleResponse: callable, status, response, adapter, in this order.
C24_Witness ==
  \E h \in DOMAIN life :
    /\ kind[h] = "ForwardingFunctionWrapper"
    /\ delivery[h].entry = "HandleResponse"
    /\ ~IsOK(delivery[h].status)
    /\ log[h] = <<Call(delivery[h].status, nullref, TRUE),
                  DeleteStatus(delivery[h].status),
                  DeleteResponse(delivery[h].response), DeleteThis>>

\* The effects of h that free an object other than the adapter.
Frees(h) ==
  {log[h][i] : i \in Positions(h, "delete status")
                     \cup Positions(h, "delete response")
                     \cup Positions(h, "delete info")
                     \cup Positions(h, "delete hostList")}

\* C25: no delivery has freed a placeholder; an open+metadata adapter that
\* was delivered a failure has freed no StatInfo; a callback adapter
\* with a response that was delivered a failure through HandleResponse
\* has freed the status and the response object of the outcome and
\* nothing else.
C25_PlaceholderNeverFreed ==
  \A h \in DOMAIN life :
    /\ \A i \in Positions(h, "delete info") : log[h][i].res.ref # "nullref"
    /\ (kind[h] \in ExOpenKinds /\ Delivered(h)
          /\ ~IsOK(delivery[h].status)) =>
         Positions(h, "delete info") = {}
    /\ (kind[h] \in ResponseKinds /\ Returned(h)
          /\ ~IsOK(delivery[h].status)
          /\ delivery[h].entry = "HandleResponse") =>
         Frees(h) = {DeleteStatus(delivery[h].status),
                     DeleteResponse(delivery[h].response)}

\* A ForwardingExOpenFuncWrapper was delivered a failure: it handed the
\* placeholder to its callable and deleted itself.
C25_Witness ==
  \E h \in DOMAIN life :
    /\ kind[h] = "ForwardingExOpenFuncWrapper"
    /\ ~IsOK(delivery[h].status)
    /\ Calls(h) = <<Call(delivery[h].status, nullref, TRUE)>>
    /\ life[h] = "deleted"

\* C26: while the process runs, the future linked to a bridge that
\* Create( std::future& ) built is ready exactly when the bridge has been
\* delivered an outcome or has been destroyed; until then the shared state
\* is linked and pending.
C26_ReadyIffDeliveredOrDestroyed ==
  Running =>
    \A h \in DOMAIN life :
      (kind[h] \in FutureKinds /\ life[h] # "unused") =>
        /\ Ready(prms[h]) <=> (Delivered(h) \/ life[h] = "deleted")
        /\ ~Ready(prms[h]) => (prms[h] = PendingPromise /\ life[h] = "live")

\* A FutureWrapper<Response> was delivered a failure: its future holds the
\* exception and the bridge is gone.
C26_Witness ==
  \E h \in DOMAIN life :
    /\ kind[h] = "FutureWrapper"
    /\ Delivered(h)
    /\ prms[h] = [state |-> "exception", res |-> NoRes,
                  err |-> delivery[h].status]
    /\ life[h] = "deleted"

\* What the outcome given to bridge h, or its destruction without one,
\* resolves the future with; a success without a payload of the response
\* type resolves it with some value.
Resolved(h, got) ==
  IF ~Delivered(h)
    THEN got = [state |-> "exception", res |-> NoRes, err |-> PipelineFailed]
    ELSE IF ~IsOK(delivery[h].status)
      THEN got = [state |-> "exception", res |-> NoRes,
                  err |-> delivery[h].status]
      ELSE IF kind[h] = "FutureWrapperVoid"
        THEN got = [state |-> "value", res |-> NoRes, err |-> NoStatus]
        ELSE IF AnyObjectGet(delivery[h].response, "T") # NullPtr
          THEN got = [state |-> "value",
                      res |-> AnyObjectGet(delivery[h].response, "T"),
                      err |-> NoStatus]
          ELSE got.state = "value"

\* C27: whenever the waiting thread has come back from get(), whether it
\* found the future ready or was blocked first, and wherever the
\* delivering thread is in HandleResponse or after the bridge is gone, it
\* holds the delivered value, the delivered failure, or the
\* pipeline-failed error of a bridge destroyed without a delivery; what it
\* holds is the content of the shared state, which outlives the bridge.
C27_WaiterGetsTheOutcome ==
  \A h \in DOMAIN life :
    waiter[h].st = "released" =>
      /\ Resolved(h, waiter[h].got)
      /\ waiter[h].got = prms[h]

\* The thread was blocked in get() while the delivery was under way and
\* was released with the delivered value before the bridge had deleted
\* itself.
C27_Witness ==
  \E h \in DOMAIN life :
    /\ waiter[h].st = "released"
    /\ waiter[h].wasBlocked
    /\ waiter[h].got.state = "value"
    /\ waiter[h].got.res.val = MaxVal
    /\ frame[h].pending # <<>>
    /\ life[h] = "live"

\* The thread called get() after the bridge was gone.
C27_WitnessAfter ==
  \E h \in DOMAIN life :
    /\ waiter[h].st = "released"
    /\ ~waiter[h].wasBlocked
    /\ life[h] = "deleted"

\* HandleResponse is under way on h, on the thread that delivers to h.
UnderWay(h) == frame[h].pending # <<>>
\* The delivery to h has handed the static nullref of h's class to the
\* callable, by non-const reference.
HandedNullref(h) ==
  \E i \in DOMAIN log[h] :
    log[h][i].op = "call" /\ log[h][i].res.ref = "nullref"

\* C28, as claimed: two deliveries under way at the same time on two
\* adapters, each on its own thread, have touched no mutable object in
\* common: not a container, and not a placeholder, also when both are
\* failure deliveries to adapters of the same class.
C28_NoCommonMutableObject ==
  \A g, h \in DOMAIN life :
    (g # h /\ UnderWay(g) /\ UnderWay(h)) =>
      /\ ~(HandedContext(g) /\ HandedContext(h) /\ context[g] = context[h])
      /\ ~(HandedNullref(g) /\ HandedNullref(h) /\ kind[g] = kind[h])

\* The runs of condrestartDaemon that have returned.
CondRuns == {i \in DOMAIN sh.ran : sh.ran[i].handler = "condrestartDaemon"}

\* C29: condrestartDaemon first asks `status`.  When the daemon is not
\* running it has returned 0 and has run neither stopDaemon nor
\* startDaemon.  When it is running it has run stopDaemon next; after a
\* failed stop it has returned 1 without running startDaemon; after a
\* successful stop it has run startDaemon and returned 2 if that failed and
\* 0 if it succeeded.  While it is under way the commands it has run so
\* far are in that order, each after the success of the one before.
C29_CondrestartStopsThenStarts ==
  /\ \A i \in CondRuns :
       LET rc == sh.ran[i].rc
           steps == sh.ran[i].steps
       IN  /\ Len(steps) >= 1
           /\ steps[1].cmd = "status"
           /\ steps[1].rc # 0 => (rc = 0 /\ Len(steps) = 1)
           /\ steps[1].rc = 0 =>
                /\ Len(steps) >= 2
                /\ steps[2].cmd = "stopDaemon"
                /\ steps[2].rc # 0 => (rc = 1 /\ Len(steps) = 2)
                /\ steps[2].rc = 0 =>
                     /\ Len(steps) = 3
                     /\ steps[3].cmd = "startDaemon"
                     /\ rc = IF steps[3].rc # 0 THEN 2 ELSE 0
  /\ \A j \in DOMAIN sh.steps :
       /\ sh.steps[j].cmd = <<"status", "stopDaemon", "startDaemon">>[j]
       /\ sh.steps[j].rc = 0

\* The daemon was running, was stopped, and could not be started again.
C29_Witness ==
  \E i \in CondRuns :
    /\ sh.ran[i].rc = 2
    /\ sh.ran[i].steps = <<[cmd |-> "status", rc |-> 0],
                           [cmd |-> "stopDaemon", rc |-> 0],
                           [cmd |-> "startDaemon", rc |-> 1]>>

\* The instances among the first n that have options, in order.
RECURSIVE WithOptions(_, _)
WithOptions(opts, n) ==
  IF n = 0
    THEN <<>>
    ELSE WithOptions(opts, n - 1) \o (IF opts[n] THEN <<n>> ELSE <<>>)

\* C30: when handleDaemons has returned for a recognized command other
\* than setup and a recognized daemon, it has run the command handler for
\* the instances that have options, in order, and for no other, and has
\* returned the exit status of the last handler it ran, 0 if it ran none.
C30_StatusOfLastInstanceRun ==
  (sh.pc = "done" /\ sh.CMD_HANDLER # "none"
     /\ sh.DAEMON \in KnownDaemons) =>
    /\ [k \in DOMAIN sh.ran |-> sh.ran[k].instance]
         = WithOptions(sh.OPTS, Len(sh.OPTS))
    /\ \A k \in DOMAIN sh.ran : sh.ran[k].handler = CmdHandler(sh.COMMAND)
    /\ sh.ret = Val(IF sh.ran = <<>> THEN 0 ELSE sh.ran[Len(sh.ran)].rc)

\* Three instances: the first has no options and was skipped, starting the
\* second failed, starting the third succeeded, and handleDaemons
\* returned 0.
C30_Witness ==
  /\ sh.pc = "done"
  /\ sh.COMMAND = "start"
  /\ sh.OPTS = <<FALSE, TRUE, TRUE>>
  /\ Len(sh.ran) = 2
  /\ sh.ran[1].instance = 2
  /\ sh.ran[1].rc = 1
  /\ sh.ran[2].rc = 0
  /\ sh.ret = Val(0)

\* The functions main has called include fn.
HasCalled(fn) == \E i \in DOMAIN py.called : py.called[i] = fn

\* C31, as claimed: once main has gone past the auto-discovery and the
\* discovery URL did answer, an answer with a status other than ok, or an
\* ok answer without a token_endpoint field, has made get_token_endpoint
\* raise NoTokenEndpoint and main call generate_token; any other answer
\* has yielded its endpoint, to which the request went, and generate_token
\* has not been called.
C31_FallbackOnNoTokenEndpoint ==
  (py.pc \notin {"start", "oauth", "discovered"} /\ py.response # NoAnswer) =>
    IF py.response.status_code # 200 \/ py.response.text.token_endpoint = 0
      THEN /\ py.outcome = Raised("NoTokenEndpoint")
           /\ HasCalled("generate_token")
      ELSE /\ py.outcome = Returned_(py.response.text.token_endpoint)
           /\ ~HasCalled("generate_token")

=============================================================================
